---- MODULE Spec2Model ----
(***************************************************************************)
(* Model of SampleScripts/BatchGeocodeSearch/batch_search.ipynb: one run   *)
(* of the notebook's cells 5 and 6, that is batch_geocode_addresses over a *)
(* list of formatted addresses followed by geocoded_data.to_csv.           *)
(*                                                                         *)
(* JSON scalars (latitude, longitude, score, precision code) are opaque to *)
(* the code, which only copies them; they are represented by their decimal *)
(* text, the form in which to_csv writes them.  The JSON key "$metadata"   *)
(* is written metadata.  A key that is absent from a JSON object is        *)
(* represented by the value Absent; reading it is Python's KeyError.       *)
(***************************************************************************)
EXTENDS Integers, Sequences, FiniteSets, TLC

\* ------------------------------------------------------------- bounds
\* Longest address list explored.
MaxLen == 3

\* ------------------------------------------------------ program constants
\* batch_size: int = 200
DefaultBatchSize == 200
\* if result.status_code == 200
StatusOk == 200

\* --------------------------------------------------------------- inputs
\* Formatted address texts, "{Address}, {City} {State} {Zip Code}".
AddressTexts == {"5201 C ST, PHILADELPHIA PA 19120-3608", "9 ELM RD, AUSTIN TX 78701"}

AddressLists == UNION {[1..n -> AddressTexts] : n \in 0..MaxLen}

\* batch_size values passed to batch_geocode_addresses.
BatchSizes == {-2, -1, 0, 1, 2, DefaultBatchSize}

\* Status codes other than 200 that the remote service answers with.
ErrorStatusCodes == {404, 500}

Absent == "<absent>"

Candidate(lat, lon, score, prec) ==
    [location |-> [representativePoint |-> [latitude |-> lat, longitude |-> lon]],
     metadata |-> [geocode |-> [confidence |-> [score |-> score],
                                precisionCode |-> prec]]]

\* Elements of the response's "addresses" array: two complete matches and one
\* that lacks the precisionCode key.
Candidates ==
    {Candidate("40.03", "-75.12", "0.97", "rooftop"),
     Candidate("38.57", "-121.46", "0.55", "street"),
     Candidate("30.27", "-97.74", "0.31", Absent)}

\* "addresses" arrays of zero, one or two candidates.
CandidateLists ==
    {<<>>} \cup {<<c>> : c \in Candidates} \cup {<<c, d>> : c \in Candidates, d \in Candidates}

\* A response body: json is whether response.json() parses it, has_addresses
\* whether the parsed object has the key 'addresses'.
NotJsonBody == [json |-> FALSE, has_addresses |-> FALSE, addresses |-> <<>>]
\* {'error': {'code': ..., 'message': ...}}
ErrorBody == [json |-> TRUE, has_addresses |-> FALSE, addresses |-> <<>>]
SearchBody(list) == [json |-> TRUE, has_addresses |-> TRUE, addresses |-> list]

Bodies == {NotJsonBody, ErrorBody} \cup {SearchBody(l) : l \in CandidateLists}

\* What requests.get gives: a response (status code and body), or no response
\* at all when the transport fails (DNS, connection) and requests.get raises.
NoResponse == [connected |-> FALSE, status_code |-> 0, body |-> NotJsonBody]
Response(code, body) == [connected |-> TRUE, status_code |-> code, body |-> body]

Outcomes ==
    {NoResponse}
    \cup {Response(StatusOk, bd) : bd \in Bodies}
    \cup {Response(c, ErrorBody) : c \in ErrorStatusCodes}

\* ------------------------------------------------------ Python built-ins
Min(a, b) == IF a < b THEN a ELSE b
Max(a, b) == IF a > b THEN a ELSE b

\* len(range(start, stop, step)) for step # 0
RangeLen(start, stop, step) ==
    IF step > 0
    THEN (IF stop > start THEN (stop - start + step - 1) \div step ELSE 0)
    ELSE (IF start > stop THEN (start - stop - step - 1) \div (-step) ELSE 0)

\* range(start, stop, step) as the sequence of its values, step # 0
PyRange(start, stop, step) ==
    [k \in 1..RangeLen(start, stop, step) |-> start + (k - 1) * step]

\* A slice bound clamped as Python clamps it: negative bounds count from the end.
SliceBound(i, n) == IF i < 0 THEN Max(i + n, 0) ELSE Min(i, n)

\* s[lo:hi] (0-based, hi exclusive)
PySlice(s, lo, hi) ==
    LET a == SliceBound(lo, Len(s))
        z == SliceBound(hi, Len(s))
    IN IF a >= z THEN <<>> ELSE SubSeq(s, a + 1, z)

\* ------------------------------------------- batch_geocode_addresses
\* Partition with the trailing partial chunk dropped, as
\* range(0, len(addresses) - len(addresses) % batch_size, batch_size) would.
PartitionDropsTail(addrs, size) ==
    LET whole == IF size > 0 THEN Len(addrs) - (Len(addrs) % size) ELSE Len(addrs)
        starts == PyRange(0, whole, size)
    IN [k \in 1..Len(starts) |-> PySlice(addrs, starts[k], starts[k] + size)]

\* Partition with the size clamped to at least 1, as max(1, batch_size) would.
PartitionClampsSize(addrs, size) ==
    LET step == Max(size, 1)
        starts == PyRange(0, Len(addrs), step)
    IN [k \in 1..Len(starts) |-> PySlice(addrs, starts[k], starts[k] + step)]

\* [addresses[i:i + batch_size] for i in range(0, len(addresses), batch_size)]
Partition(addrs, size) ==
    LET starts == PyRange(0, Len(addrs), size)
    IN [k \in 1..Len(starts) |-> PySlice(addrs, starts[k], starts[k] + size)]

\* The four keys read from the first match; a KeyError if one is absent.
FirstMatchComplete(m) ==
    /\ m.location.representativePoint.latitude # Absent
    /\ m.location.representativePoint.longitude # Absent
    /\ m.metadata.geocode.confidence.score # Absent
    /\ m.metadata.geocode.precisionCode # Absent

Row(address, lat, lon, score, prec) ==
    [address |-> address, latitude |-> lat, longitude |-> lon,
     confidence_score |-> score, precision_code |-> prec]

\* MatchedRow reading data['addresses'][-1] instead of data['addresses'][0].
MatchedRowLast(address, data) ==
    LET last_match == data.addresses[Len(data.addresses)]
    IN Row(address,
           last_match.location.representativePoint.latitude,
           last_match.location.representativePoint.longitude,
           last_match.metadata.geocode.confidence.score,
           last_match.metadata.geocode.precisionCode)

\* The row built from the first match.
MatchedRow(address, data) ==
    LET first_match == data.addresses[1]
    IN Row(address,
           first_match.location.representativePoint.latitude,
           first_match.location.representativePoint.longitude,
           first_match.metadata.geocode.confidence.score,
           first_match.metadata.geocode.precisionCode)

\* NoMatchRow with the precision_code added later left without the sentinel.
NoMatchRowShort(address) == Row(address, "No match", "No match", "No match", "")

NoMatchRow(address) == Row(address, "No match", "No match", "No match", "No match")

\* f"Status Code: {result.status_code}"
StatusText(code) == "Status Code: " \o ToString(code)

\* FailedRow with the status text under confidence_score instead of longitude.
FailedRowStatusInScore(address, code) ==
    Row(address, "Failed", "Failed", StatusText(code), "Failed")

FailedRow(address, code) == Row(address, "Failed", StatusText(code), "Failed", "Failed")

\* f"Failed to geocode address '{address}', Status Code: {result.status_code}"
DiagnosticLine(address, code) ==
    "Failed to geocode address '" \o address \o "', " \o StatusText(code)

\* The dict keys in insertion order: the columns of pd.DataFrame(all_results).
RowKeys == <<"address", "latitude", "longitude", "confidence_score", "precision_code">>

\* pd.DataFrame(list of dicts): the columns come from the dicts, so an empty
\* list gives a frame with no columns.
DataFrame(rows) ==
    [bound |-> TRUE, columns |-> IF rows = <<>> THEN <<>> ELSE RowKeys, rows |-> rows]

\* geocoded_data before cell 5 has assigned it.
Unbound == [bound |-> FALSE, columns |-> <<>>, rows |-> <<>>]

\* frame.to_csv(path, index=False): a header line of the column names, then
\* one line per row with the cells in column order.
ToCsv(frame) ==
    [exists |-> TRUE,
     header |-> frame.columns,
     lines |-> [k \in 1..Len(frame.rows) |->
                  [c \in 1..Len(frame.columns) |-> frame.rows[k][frame.columns[c]]]]]

NoFile == [exists |-> FALSE, header |-> <<>>, lines |-> <<>>]

\* The first batch at or after index k that has an address in it (the inner
\* for loop over an empty batch does nothing), or Len(batches) + 1.
RECURSIVE SkipEmpty(_, _)
SkipEmpty(batches, k) ==
    IF k > Len(batches) THEN k
    ELSE IF batches[k] = <<>> THEN SkipEmpty(batches, k + 1)
    ELSE k

VARIABLES
    addresses,          \* the list passed to batch_geocode_addresses
    batch_size,         \* its batch_size argument
    batched_addresses,  \* the list of chunks
    batch_no,           \* position of the outer for loop (1-based)
    addr_no,            \* position of the inner for loop (1-based)
    all_results,        \* the rows appended so far
    requests,           \* address texts sent to the remote API, in order
    responses,          \* what each call of geocode_address gave, in order
    diagnostics,        \* lines printed by the status # 200 branch
    pc,                 \* "start", "loop", "waiting", "returned", "written", "aborted"
    raised,             \* the exception that ended the run, or "none"
    geocoded_data,      \* the notebook's variable of cell 5
    output_file         \* the file at output_file_path

vars == <<addresses, batch_size, batched_addresses, batch_no, addr_no, all_results,
          requests, responses, diagnostics, pc, raised, geocoded_data, output_file>>

Init ==
    /\ addresses \in AddressLists
    /\ batch_size \in BatchSizes
    /\ batched_addresses = <<>>
    /\ batch_no = 1
    /\ addr_no = 1
    /\ all_results = <<>>
    /\ requests = <<>>
    /\ responses = <<>>
    /\ diagnostics = <<>>
    /\ pc = "start"
    /\ raised = "none"
    /\ geocoded_data = Unbound
    /\ output_file = NoFile

\* Abort that hands the rows gathered so far to the caller, as a try/except
\* around the loop returning pd.DataFrame(all_results) would.
AbortReturnsPartial(exception) ==
    /\ pc' = "aborted"
    /\ raised' = exception
    /\ geocoded_data' = DataFrame(all_results)
    /\ UNCHANGED <<addresses, batch_size, batched_addresses, batch_no, addr_no,
                   all_results, diagnostics, output_file>>

\* Abort that saves the rows gathered so far, as a try/finally writing the
\* file would.
AbortSavesPartial(exception) ==
    /\ pc' = "aborted"
    /\ raised' = exception
    /\ output_file' = ToCsv(DataFrame(all_results))
    /\ UNCHANGED <<addresses, batch_size, batched_addresses, batch_no, addr_no,
                   all_results, diagnostics, geocoded_data>>

\* An uncaught exception leaves batch_geocode_addresses and the cell: nothing
\* is returned and the cells after it do not run.
Abort(exception) ==
    /\ pc' = "aborted"
    /\ raised' = exception
    /\ UNCHANGED <<addresses, batch_size, batched_addresses, batch_no, addr_no,
                   all_results, diagnostics, geocoded_data, output_file>>

\* Cell 5 calls the function; the partition is built and all_results is empty.
BuildBatches ==
    /\ pc = "start"
    /\ batch_size # 0
    /\ batched_addresses' = Partition(addresses, batch_size)
    /\ batch_no' = SkipEmpty(batched_addresses', 1)
    /\ addr_no' = 1
    /\ pc' = "loop"
    /\ UNCHANGED <<addresses, batch_size, all_results, requests, responses,
                   diagnostics, raised, geocoded_data, output_file>>

\* range() with a step of 0 raises ValueError.
BuildBatchesRaises ==
    /\ pc = "start"
    /\ batch_size = 0
    /\ Abort("ValueError")
    /\ UNCHANGED <<requests, responses>>

\* result = geocode_address(api_key, address): requests.get sends the request
\* and blocks.
SendRequest ==
    /\ pc = "loop"
    /\ batch_no <= Len(batched_addresses)
    /\ requests' = Append(requests, batched_addresses[batch_no][addr_no])
    /\ pc' = "waiting"
    /\ UNCHANGED <<addresses, batch_size, batched_addresses, batch_no, addr_no,
                   all_results, responses, diagnostics, raised, geocoded_data,
                   output_file>>

\* AppendRow with all_results.insert(0, row) instead of append.
AppendRowReordered(row) ==
    /\ all_results' = <<row>> \o all_results
    /\ IF addr_no < Len(batched_addresses[batch_no])
       THEN /\ addr_no' = addr_no + 1
            /\ batch_no' = batch_no
       ELSE /\ addr_no' = 1
            /\ batch_no' = SkipEmpty(batched_addresses, batch_no + 1)
    /\ pc' = "loop"
    /\ UNCHANGED <<addresses, batch_size, batched_addresses, raised, geocoded_data,
                   output_file>>

\* The row is appended and both for loops move to the next address.
AppendRow(row) ==
    /\ all_results' = Append(all_results, row)
    /\ IF addr_no < Len(batched_addresses[batch_no])
       THEN /\ addr_no' = addr_no + 1
            /\ batch_no' = batch_no
       ELSE /\ addr_no' = 1
            /\ batch_no' = SkipEmpty(batched_addresses, batch_no + 1)
    /\ pc' = "loop"
    /\ UNCHANGED <<addresses, batch_size, batched_addresses, raised, geocoded_data,
                   output_file>>

\* The address of the current iteration.
CurrentAddress == batched_addresses[batch_no][addr_no]

\* requests.get raises: no response.
TransportFailure ==
    /\ pc = "waiting"
    /\ responses' = Append(responses, NoResponse)
    /\ Abort("ConnectionError")
    /\ UNCHANGED requests

\* status 200, data['addresses'] non-empty, the first match complete.
ReceiveMatch ==
    /\ pc = "waiting"
    /\ \E r \in Outcomes :
        /\ r.connected
        /\ r.status_code = StatusOk
        /\ r.body.json
        /\ r.body.has_addresses
        /\ r.body.addresses # <<>>
        /\ FirstMatchComplete(r.body.addresses[1])
        /\ responses' = Append(responses, r)
        /\ AppendRow(MatchedRow(CurrentAddress, r.body))
    /\ UNCHANGED <<requests, diagnostics>>

\* ReceiveNoMatch with the diagnostic print also in the empty-list branch.
ReceiveNoMatchPrints ==
    /\ pc = "waiting"
    /\ \E r \in Outcomes :
        /\ r.connected
        /\ r.status_code = StatusOk
        /\ r.body.json
        /\ r.body.has_addresses
        /\ r.body.addresses = <<>>
        /\ responses' = Append(responses, r)
        /\ AppendRow(NoMatchRow(CurrentAddress))
        /\ diagnostics' = Append(diagnostics, DiagnosticLine(CurrentAddress, r.status_code))
    /\ UNCHANGED requests

\* status 200, data['addresses'] empty.
ReceiveNoMatch ==
    /\ pc = "waiting"
    /\ \E r \in Outcomes :
        /\ r.connected
        /\ r.status_code = StatusOk
        /\ r.body.json
        /\ r.body.has_addresses
        /\ r.body.addresses = <<>>
        /\ responses' = Append(responses, r)
        /\ AppendRow(NoMatchRow(CurrentAddress))
    /\ UNCHANGED <<requests, diagnostics>>

\* ReceiveFailure that retries: the line is printed, no row is appended and
\* the loop stays on the same address.
ReceiveFailureRetries ==
    /\ pc = "waiting"
    /\ \E r \in Outcomes :
        /\ r.connected
        /\ r.status_code # StatusOk
        /\ responses' = Append(responses, r)
        /\ diagnostics' = Append(diagnostics, DiagnosticLine(CurrentAddress, r.status_code))
    /\ pc' = "loop"
    /\ UNCHANGED <<addresses, batch_size, batched_addresses, batch_no, addr_no,
                   all_results, requests, raised, geocoded_data, output_file>>

\* status other than 200: the Failed row and the printed line.
ReceiveFailure ==
    /\ pc = "waiting"
    /\ \E r \in Outcomes :
        /\ r.connected
        /\ r.status_code # StatusOk
        /\ responses' = Append(responses, r)
        /\ AppendRow(FailedRow(CurrentAddress, r.status_code))
        /\ diagnostics' = Append(diagnostics, DiagnosticLine(CurrentAddress, r.status_code))
    /\ UNCHANGED requests

\* status 200 and result.json() raises.
ReceiveNotJson ==
    /\ pc = "waiting"
    /\ \E r \in Outcomes :
        /\ r.connected
        /\ r.status_code = StatusOk
        /\ ~r.body.json
        /\ responses' = Append(responses, r)
    /\ Abort("JSONDecodeError")
    /\ UNCHANGED requests

\* status 200 and data['addresses'], or a key of the first match, is absent.
ReceiveMissingKey ==
    /\ pc = "waiting"
    /\ \E r \in Outcomes :
        /\ r.connected
        /\ r.status_code = StatusOk
        /\ r.body.json
        /\ \/ ~r.body.has_addresses
           \/ /\ r.body.has_addresses
              /\ r.body.addresses # <<>>
              /\ ~FirstMatchComplete(r.body.addresses[1])
        /\ responses' = Append(responses, r)
    /\ Abort("KeyError")
    /\ UNCHANGED requests

\* return pd.DataFrame(all_results), assigned to geocoded_data by cell 5.
ReturnFrame ==
    /\ pc = "loop"
    /\ batch_no > Len(batched_addresses)
    /\ geocoded_data' = DataFrame(all_results)
    /\ pc' = "returned"
    /\ UNCHANGED <<addresses, batch_size, batched_addresses, batch_no, addr_no,
                   all_results, requests, responses, diagnostics, raised, output_file>>

\* Cell 6: geocoded_data.to_csv(output_file_path, index=False)
SaveResults ==
    /\ pc = "returned"
    /\ output_file' = ToCsv(geocoded_data)
    /\ pc' = "written"
    /\ UNCHANGED <<addresses, batch_size, batched_addresses, batch_no, addr_no,
                   all_results, requests, responses, diagnostics, raised, geocoded_data>>

Next ==
    \/ BuildBatches
    \/ BuildBatchesRaises
    \/ SendRequest
    \/ TransportFailure
    \/ ReceiveMatch
    \/ ReceiveNoMatch
    \/ ReceiveFailure
    \/ ReceiveNotJson
    \/ ReceiveMissingKey
    \/ ReturnFrame
    \/ SaveResults

Spec == Init /\ [][Next]_vars

\* ------------------------------------------------------------ properties
\* Classification of what a call of geocode_address gave.
IsOk(r) == r.connected /\ r.status_code = 200
IsErrorStatus(r) == r.connected /\ r.status_code # 200
WellFormed(r) == IsOk(r) /\ r.body.json /\ r.body.has_addresses
HasCandidates(r) == WellFormed(r) /\ Len(r.body.addresses) >= 1
IsEmptyList(r) == WellFormed(r) /\ Len(r.body.addresses) = 0

\* A transport failure, or a status-200 body that is malformed or lacks a field
\* the code reads.
IsAborting(r) ==
    \/ ~r.connected
    \/ /\ IsOk(r)
       /\ \/ ~r.body.json
          \/ ~r.body.has_addresses
          \/ /\ Len(r.body.addresses) >= 1
             /\ \E f \in {r.body.addresses[1].location.representativePoint.latitude,
                          r.body.addresses[1].location.representativePoint.longitude,
                          r.body.addresses[1].metadata.geocode.confidence.score,
                          r.body.addresses[1].metadata.geocode.precisionCode} : f = Absent

Completed == pc \in {"returned", "written"}

\* C1: with the default batch_size, a run that meets no aborting error returns
\* exactly one row per input address, row k carrying input address k, with no
\* reordering, deduplication or merging, also for repeated address texts.
C1_OneRowPerAddress ==
    (batch_size = DefaultBatchSize /\ Completed) =>
        /\ geocoded_data.bound
        /\ Len(geocoded_data.rows) = Len(addresses)
        /\ \A k \in 1..Len(addresses) : geocoded_data.rows[k].address = addresses[k]

\* C1 witness: a completed default run over three addresses, the first and
\* third the same text and the second another.
C1_Witness ==
    /\ batch_size = DefaultBatchSize
    /\ pc = "returned"
    /\ Len(addresses) = 3
    /\ addresses[1] = addresses[3]
    /\ addresses[1] # addresses[2]
    /\ Len(geocoded_data.rows) = 3

\* C2: a row appended for a status-200 response with a non-empty 'addresses'
\* list takes its four fields from the first list element only, whatever the
\* later candidates contain.
C2_FirstCandidateOnly ==
    \A k \in 1..Len(all_results) :
        (k <= Len(responses) /\ HasCandidates(responses[k])) =>
            LET first == responses[k].body.addresses[1]
                row == all_results[k]
            IN /\ row.latitude = first.location.representativePoint.latitude
               /\ row.longitude = first.location.representativePoint.longitude
               /\ row.confidence_score = first.metadata.geocode.confidence.score
               /\ row.precision_code = first.metadata.geocode.precisionCode

\* C2 witness: two rows made from responses with the same first candidate and
\* different second candidates, one of them lacking a key.
C2_Witness ==
    \E k, m \in 1..Len(all_results) :
        /\ k # m
        /\ Len(responses[k].body.addresses) = 2
        /\ Len(responses[m].body.addresses) = 2
        /\ responses[k].body.addresses[1] = responses[m].body.addresses[1]
        /\ responses[k].body.addresses[2] # responses[m].body.addresses[2]
        /\ responses[k].body.addresses[2] # responses[k].body.addresses[1]
        /\ responses[m].body.addresses[2].metadata.geocode.precisionCode = Absent
        /\ all_results[k].latitude = all_results[m].latitude
        /\ all_results[k].precision_code = all_results[m].precision_code

\* C3: a status-200 response with an empty 'addresses' list gets a row whose
\* four fields are the literal "No match", and the run goes on: it is not
\* aborted, and when an address is left the loop stands on the next one.
C3_NoMatchRow ==
    \A k \in 1..Len(responses) :
        IsEmptyList(responses[k]) =>
            /\ k <= Len(all_results)
            /\ all_results[k].latitude = "No match"
            /\ all_results[k].longitude = "No match"
            /\ all_results[k].confidence_score = "No match"
            /\ all_results[k].precision_code = "No match"
            /\ (k = Len(responses) => pc # "aborted" /\ raised = "none")
            /\ (k = Len(responses) /\ k < Len(addresses) /\ pc = "loop") =>
                   /\ batch_no <= Len(batched_addresses)
                   /\ batched_addresses[batch_no][addr_no] = addresses[k + 1]

\* C3 witness: a "No match" row followed by the request for the next address.
C3_Witness ==
    /\ pc = "waiting"
    /\ Len(responses) = 1
    /\ IsEmptyList(responses[1])
    /\ all_results[1].precision_code = "No match"
    /\ Len(requests) = 2

\* C4 as stated: a non-200 response with status c gives, in the column order
\* latitude, longitude, confidence_score, precision_code, the values
\* "Failed" / "Failed" / "Status Code: c" / "Failed".
C4_FailedRowAsStated ==
    \A k \in 1..Len(responses) :
        IsErrorStatus(responses[k]) =>
            /\ k <= Len(all_results)
            /\ all_results[k].latitude = "Failed"
            /\ all_results[k].longitude = "Failed"
            /\ all_results[k].confidence_score = StatusText(responses[k].status_code)
            /\ all_results[k].precision_code = "Failed"

\* C4 amended: a non-200 response with status c gives latitude "Failed",
\* longitude "Status Code: c", confidence_score "Failed" and precision_code
\* "Failed" (for c = 404 the longitude is "Status Code: 404").
C4_FailedRow ==
    \A k \in 1..Len(responses) :
        IsErrorStatus(responses[k]) =>
            /\ k <= Len(all_results)
            /\ all_results[k].latitude = "Failed"
            /\ all_results[k].longitude = StatusText(responses[k].status_code)
            /\ (responses[k].status_code = 404 =>
                    all_results[k].longitude = "Status Code: 404")
            /\ (responses[k].status_code = 500 =>
                    all_results[k].longitude = "Status Code: 500")
            /\ all_results[k].confidence_score = "Failed"
            /\ all_results[k].precision_code = "Failed"

\* C4 witness: rows for a 404 and for a 500 response.
C4_Witness ==
    /\ Len(all_results) = 2
    /\ responses[1].status_code = 404
    /\ responses[2].status_code = 500
    /\ all_results[1].longitude = "Status Code: 404"
    /\ all_results[2].longitude = "Status Code: 500"

\* The diagnostic lines a pass over the first n calls prints: one for each
\* status other than 200, naming input address k and the status, in order.
RECURSIVE ExpectedDiagnostics(_)
ExpectedDiagnostics(n) ==
    IF n = 0 THEN <<>>
    ELSE IF IsErrorStatus(responses[n])
         THEN Append(ExpectedDiagnostics(n - 1),
                     "Failed to geocode address '" \o addresses[n] \o "', Status Code: "
                         \o ToString(responses[n].status_code))
         ELSE ExpectedDiagnostics(n - 1)

FailedRows == {k \in 1..Len(all_results) : all_results[k].latitude = "Failed"}

\* C5: exactly one diagnostic line per address whose status is not 200, naming
\* that address and status, in input order, and none for a status-200 address;
\* the number of lines equals the number of Failed rows.
C5_OneDiagnosticPerFailure ==
    /\ Len(responses) <= Len(addresses)
    /\ diagnostics = ExpectedDiagnostics(Len(responses))
    /\ Len(diagnostics) = Cardinality(FailedRows)
    /\ \A k \in 1..Len(diagnostics) :
           diagnostics[k] \in
               {"Failed to geocode address '5201 C ST, PHILADELPHIA PA 19120-3608', Status Code: 404",
                "Failed to geocode address '5201 C ST, PHILADELPHIA PA 19120-3608', Status Code: 500",
                "Failed to geocode address '9 ELM RD, AUSTIN TX 78701', Status Code: 404",
                "Failed to geocode address '9 ELM RD, AUSTIN TX 78701', Status Code: 500"}

\* C5 witness: a completed run of three addresses, a 404, a "No match" and a
\* 500, with two diagnostic lines.
C5_Witness ==
    /\ Completed
    /\ Len(responses) = 3
    /\ responses[1].status_code = 404
    /\ IsEmptyList(responses[2])
    /\ responses[3].status_code = 500
    /\ addresses[1] # addresses[3]
    /\ Len(diagnostics) = 2

\* C6: an aborting error at address i ends the run: no row for address i, no
\* request after i, nothing returned to the notebook and no output file; and
\* the file is written only after every input address has its row.
C6_AbortLosesEverything ==
    /\ \A k \in 1..Len(responses) :
           IsAborting(responses[k]) =>
               /\ k = Len(responses)
               /\ pc = "aborted"
               /\ Len(all_results) = k - 1
               /\ Len(requests) = k
               /\ geocoded_data = Unbound
               /\ output_file = NoFile
    /\ (batch_size >= 1 /\ output_file.exists) =>
           /\ Len(all_results) = Len(addresses)
           /\ \A k \in 1..Len(responses) : ~IsAborting(responses[k])

\* C6 witness: an abort at the third address with two rows gathered.
C6_Witness ==
    /\ pc = "aborted"
    /\ Len(responses) = 3
    /\ IsAborting(responses[3])
    /\ Len(all_results) = 2
    /\ Len(requests) = 3

\* C7 as stated: after an aborting error at address i the output file holds
\* the rows of the addresses before i and no row of address i or later.
C7_FileHoldsRowsBeforeAbort ==
    (pc = "aborted" /\ Len(responses) >= 1 /\ IsAborting(responses[Len(responses)])) =>
        /\ output_file.exists
        /\ Len(output_file.lines) = Len(responses) - 1
        /\ \A k \in 1..Len(output_file.lines) : output_file.lines[k][1] = addresses[k]

\* C7 amended: after an aborting error at address i there is no output file:
\* no row of any address, before or after i, is written.
C7_NoFileAfterAbort ==
    (\E k \in 1..Len(responses) : IsAborting(responses[k])) =>
        /\ ~output_file.exists
        /\ output_file.lines = <<>>

\* C7 witness: an abort at the second address, one row gathered, no file.
C7_Witness ==
    /\ pc = "aborted"
    /\ Len(responses) = 2
    /\ IsAborting(responses[2])
    /\ Len(all_results) = 1
    /\ ~output_file.exists

\* Loop iterations begun: the addresses before the loops' position, and the
\* one in hand while its call is outstanding or has raised.
RECURSIVE AddressesBefore(_)
AddressesBefore(b) ==
    IF b <= 1 THEN 0 ELSE AddressesBefore(b - 1) + Len(batched_addresses[b - 1])

Attempted ==
    AddressesBefore(batch_no) + (addr_no - 1)
        + (IF pc = "waiting" \/ (pc = "aborted" /\ raised # "ValueError") THEN 1 ELSE 0)

\* C8: the k-th request is for the k-th input address; it is issued only once
\* request k-1 has been answered and turned into its row; at most one request
\* is outstanding; no address is requested twice; the number of requests
\* equals the number of addresses attempted.
C8_SequentialNoRetry ==
    /\ Len(requests) <= Len(addresses)
    /\ \A k \in 1..Len(requests) : requests[k] = addresses[k]
    /\ Len(responses) <= Len(requests)
    /\ Len(requests) <= Len(responses) + 1
    /\ (pc = "waiting") = (Len(requests) = Len(responses) + 1)
    /\ (pc = "waiting") => Len(all_results) = Len(requests) - 1
    /\ Len(requests) = Attempted

\* C8 witness: the third request outstanding after a non-200 answer to the
\* second address.
C8_Witness ==
    /\ pc = "waiting"
    /\ Len(requests) = 3
    /\ Len(responses) = 2
    /\ IsErrorStatus(responses[2])
    /\ Len(all_results) = 2

\* The row a single pass over the list appends for input address k.
UnbatchedRow(k) ==
    LET r == responses[k]
    IN IF IsErrorStatus(r)
       THEN [address |-> addresses[k], latitude |-> "Failed",
             longitude |-> "Status Code: " \o ToString(r.status_code),
             confidence_score |-> "Failed", precision_code |-> "Failed"]
       ELSE IF r.body.addresses = <<>>
       THEN [address |-> addresses[k], latitude |-> "No match", longitude |-> "No match",
             confidence_score |-> "No match", precision_code |-> "No match"]
       ELSE [address |-> addresses[k],
             latitude |-> r.body.addresses[1].location.representativePoint.latitude,
             longitude |-> r.body.addresses[1].location.representativePoint.longitude,
             confidence_score |-> r.body.addresses[1].metadata.geocode.confidence.score,
             precision_code |-> r.body.addresses[1].metadata.geocode.precisionCode]

RECURSIVE Concat(_)
Concat(chunks) ==
    IF chunks = <<>> THEN <<>> ELSE Concat(SubSeq(chunks, 1, Len(chunks) - 1)) \o chunks[Len(chunks)]

\* C9: for every batch_size >= 1 the chunks concatenated in order are the
\* input list, and the requests and rows are those of a single unbatched pass.
C9_BatchingIsNoOp ==
    (batch_size >= 1 /\ pc # "start") =>
        /\ Concat(batched_addresses) = addresses
        /\ \A c \in 1..Len(batched_addresses) :
               Len(batched_addresses[c]) \in 1..batch_size
        /\ Len(requests) <= Len(addresses)
        /\ requests = SubSeq(addresses, 1, Len(requests))
        /\ Len(all_results) <= Len(responses)
        /\ \A k \in 1..Len(all_results) : all_results[k] = UnbatchedRow(k)
        /\ Completed => Len(geocoded_data.rows) = Len(addresses)
                        /\ geocoded_data.rows = all_results

\* C9 witness: three addresses in chunks of two (a full chunk and a partial
\* one), the run completed.
C9_Witness ==
    /\ batch_size = 2
    /\ Len(addresses) = 3
    /\ Len(batched_addresses) = 2
    /\ Len(batched_addresses[2]) = 1
    /\ pc = "returned"
    /\ Len(geocoded_data.rows) = 3

\* C10 as stated: after a completed run over N addresses (N >= 0) the written
\* file has a header naming address, latitude, longitude, confidence_score,
\* precision_code and exactly N data lines, one per address in input order.
C10_HeaderAndRows ==
    (pc = "written" /\ batch_size = DefaultBatchSize) =>
        /\ output_file.exists
        /\ output_file.header =
               <<"address", "latitude", "longitude", "confidence_score", "precision_code">>
        /\ Len(output_file.lines) = Len(addresses)
        /\ \A k \in 1..Len(output_file.lines) : output_file.lines[k][1] = addresses[k]

\* C11: with batch_size <= 0 no address of a list is ever processed.  A
\* negative batch_size gives an empty partition: no request, no row, no
\* diagnostic and no exception, and the frame returned has zero rows, not N.
\* batch_size = 0 raises while the partition is built, before any request.
C11_NonPositiveBatchSize ==
    /\ (batch_size < 0 /\ pc # "start") =>
           /\ batched_addresses = <<>>
           /\ requests = <<>>
           /\ responses = <<>>
           /\ all_results = <<>>
           /\ diagnostics = <<>>
           /\ raised = "none"
           /\ pc \in {"loop", "returned", "written"}
           /\ Completed =>
                  /\ geocoded_data.bound
                  /\ Len(geocoded_data.rows) = 0
                  /\ (Len(addresses) >= 1 => Len(geocoded_data.rows) # Len(addresses))
    /\ (batch_size = 0) =>
           /\ pc \in {"start", "aborted"}
           /\ (pc = "aborted" => raised = "ValueError")
           /\ batched_addresses = <<>>
           /\ requests = <<>>
           /\ all_results = <<>>
           /\ diagnostics = <<>>
           /\ geocoded_data = Unbound
           /\ output_file = NoFile

\* C11 witness: a negative batch_size over three addresses, the run completed
\* with an empty frame and nothing requested.
C11_Witness ==
    /\ batch_size < 0
    /\ Len(addresses) = 3
    /\ pc = "returned"
    /\ requests = <<>>
    /\ Len(geocoded_data.rows) = 0

====
